---- MODULE Spec2Model ----
(***************************************************************************)
(* A model of the toolbox command line tool: the bootstrap of the root     *)
(* command (PersistentPreRunE and migrate), the podman invoker and the     *)
(* create subcommand with its image pull loop.                             *)
(*                                                                         *)
(* Strings that the code inspects character by character (container names, *)
(* the answer to the pull prompt) are sequences of one-character strings.  *)
(* A version string is a natural number, 0 standing for the empty string.  *)
(***************************************************************************)
EXTENDS Integers, Sequences, FiniteSets, TLC

\* ------------------------------------------------------------------------
\* Bounds of the model
\* ------------------------------------------------------------------------

\* installed podman versions range over 1..MaxVersion
MaxVersion == 2

\* container names given on the command line have at most MaxNameLen characters
MaxNameLen == 2

\* podman exit statuses range over 0..MaxExitStatus
MaxExitStatus == 126

\* ------------------------------------------------------------------------
\* Errors
\* ------------------------------------------------------------------------

Nil == [type |-> "nil", status |-> 0, msg |-> ""]

\* *exec.ExitError: the process ran and did not exit with status 0;
\* ExitStatus() is -1 when the process was killed by a signal
ExitError(s) == [type |-> "ExitError", status |-> s, msg |-> "exit status"]

\* errors.New(m)
ErrorString(m) == [type |-> "errorString", status |-> 0, msg |-> m]

\* any error that is not an *exec.ExitError (podman not found, ...)
ExecError == [type |-> "exec.Error", status |-> 0, msg |-> "executable file not found in $PATH"]

\* ------------------------------------------------------------------------
\* Podman invoker
\* ------------------------------------------------------------------------

\* what can happen to a podman subprocess
ProcOutcomes ==
    [kind : {"exited"}, status : 0..MaxExitStatus]
        \cup {[kind |-> "signaled", status |-> -1],
              [kind |-> "notstarted", status |-> -1]}

\* the error of cmd.Run() and cmd.Output() for an outcome of the subprocess
CmdErr(o) ==
    IF o.kind = "notstarted" THEN ExecError
    ELSE IF o.kind = "signaled" THEN ExitError(-1)
    ELSE IF o.status = 0 THEN Nil
    ELSE ExitError(o.status)

handleErrorCodeNo125(err) ==
    IF err.type = "ExitError"
    THEN CASE err.status = 1 -> ErrorString("No such container/image")
           [] err.status = 2 -> ErrorString("Container is running")
           [] OTHER -> err
    ELSE err

handleErrorCode(err) ==
    IF err.type = "ExitError"
    THEN CASE err.status = 1 -> ErrorString("No such container/image")
           [] err.status = 2 -> ErrorString("Container is running")
           [] err.status = 125 -> ErrorString("Failed to inspect container")
           [] OTHER -> err
    ELSE err

PodmanRun(o) ==
    LET err == CmdErr(o)
    IN IF err # Nil THEN handleErrorCode(err) ELSE Nil

\* the pair (output, error); the output is abstracted to whether it is nil
PodmanOutput(o) ==
    LET err == CmdErr(o)
    IN IF err # Nil THEN [output |-> "nil", err |-> handleErrorCode(err)]
       ELSE [output |-> "stdout", err |-> Nil]

ImageExists(o) == PodmanRun(o) = Nil

ContainerExists(o) == PodmanRun(o) = Nil

\* ------------------------------------------------------------------------
\* Strings
\* ------------------------------------------------------------------------

LowerChars == {"a","b","c","d","e","f","g","h","i","j","k","l","m",
               "n","o","p","q","r","s","t","u","v","w","x","y","z"}

UpperChars == {"A","B","C","D","E","F","G","H","I","J","K","L","M",
               "N","O","P","Q","R","S","T","U","V","W","X","Y","Z"}

DigitChars == {"0","1","2","3","4","5","6","7","8","9"}

\* [a-zA-Z0-9]
NameFirstChars == LowerChars \cup UpperChars \cup DigitChars

\* [a-zA-Z0-9_.-]
NameRestChars == NameFirstChars \cup {"_", ".", "-"}

\* utils.IsContainerNameValid: the name matches ^[a-zA-Z0-9][a-zA-Z0-9_.-]*$
IsContainerNameValid(name) ==
    /\ Len(name) > 0
    /\ name[1] \in NameFirstChars
    /\ \A i \in 2..Len(name) : name[i] \in NameRestChars

UpperToLower ==
    [c \in UpperChars |->
        CASE c = "A" -> "a" [] c = "B" -> "b" [] c = "C" -> "c" [] c = "D" -> "d"
          [] c = "E" -> "e" [] c = "F" -> "f" [] c = "G" -> "g" [] c = "H" -> "h"
          [] c = "I" -> "i" [] c = "J" -> "j" [] c = "K" -> "k" [] c = "L" -> "l"
          [] c = "M" -> "m" [] c = "N" -> "n" [] c = "O" -> "o" [] c = "P" -> "p"
          [] c = "Q" -> "q" [] c = "R" -> "r" [] c = "S" -> "s" [] c = "T" -> "t"
          [] c = "U" -> "u" [] c = "V" -> "v" [] c = "W" -> "w" [] c = "X" -> "x"
          [] c = "Y" -> "y" [] c = "Z" -> "z"]

\* strings.ToLower
ToLower(str) ==
    [i \in 1..Len(str) |-> IF str[i] \in UpperChars THEN UpperToLower[str[i]] ELSE str[i]]

\* the characters container names are drawn from: one that may start a name,
\* one that may only follow, one that may not appear
NameAlphabet == {"a", "_", "@"}

RECURSIVE SeqsUpTo(_, _)
SeqsUpTo(S, n) ==
    IF n = 0 THEN {<< >>}
    ELSE LET shorter == SeqsUpTo(S, n - 1)
         IN shorter \cup {Append(s, c) : s \in shorter, c \in S}

\* the arguments of `toolbox create`: none, or one NAME (cobra.MaximumNArgs(1))
CreateArgs == {<< >>} \cup {<<name>> : name \in SeqsUpTo(NameAlphabet, MaxNameLen)}

\* what the user may type at the pull prompt (one token read by Scanf("%s"),
\* empty at end of input)
Responses ==
    { << >>, <<"y">>, <<"Y">>, <<"n">>, <<"N">>,
      <<"y","e","s">>, <<"Y","E","s">>,
      <<"n","o">>, <<"y","e">>, <<"y","e","s","s">> }

\* ------------------------------------------------------------------------
\* State
\* ------------------------------------------------------------------------

VARIABLES
    stamp,          \* content of the stamp file podman-system-migrate, NoFile when it is missing
    podmanVersion,  \* the installed podman version
    okVersion,      \* history: the version at which migrate() last returned nil, 0 once podman changed
    pc,             \* position of the running toolbox process
    calledCmd,      \* the subcommand of the invocation
    args,           \* its positional arguments
    inContainer,    \* /run/.containerenv exists
    assumeyes,      \* rootFlags.assumeyes
    unsafe,         \* createFlags.unsafe
    loglevel,       \* rootFlags.loglevel
    out,            \* the lines written to stdout and stderr
    exitStatus,     \* the exit status, meaningful when pc = "exited"
    calls,          \* history: the podman commands issued by the invocation
    migrated,       \* history: "none", or how migrate() returned: "nil", "err"
    okBefore,       \* history: migrate() was called with okVersion = podmanVersion
    dispatched,     \* history: the subcommand's handler was invoked
    exists,         \* history: result of podman.ContainerExists: "true", "false", "unknown" before
    imageFound,     \* create: imageFound
    imagePulled,    \* create: imagePulled declared at line 138
    asked,          \* history: an answer to the pull prompt was read
    response,       \* pullToolboxImage: response as read by Scanf, before ToLower
    retries,        \* pullToolboxImage: retries
    pullResults,    \* history: what each call of podman.PullImage returned
    pullRet,        \* what pullToolboxImage returned, "none" before
    checked,        \* history: result of checkIfToolboxImage, "notcalled" before
    probed,         \* history: the host facts were gathered without a fatal error
    procOutcome,    \* invoker: the outcome of a podman subprocess
    runErr,         \* invoker: what PodmanRun returned for it
    outputRet       \* invoker: what PodmanOutput returned for it

diskVars == <<stamp, podmanVersion, okVersion>>

invocationVars == <<calledCmd, args, inContainer, assumeyes, unsafe, loglevel>>

bootVars == <<migrated, okBefore>>

createVars == <<exists, imageFound, imagePulled, asked, response, retries,
                pullResults, pullRet, checked, probed>>

invokerVars == <<procOutcome, runErr, outputRet>>

vars == <<stamp, podmanVersion, okVersion, pc, calledCmd, args, inContainer,
          assumeyes, unsafe, loglevel, out, exitStatus, calls, migrated,
          okBefore, dispatched, exists, imageFound, imagePulled, asked,
          response, retries, pullResults, pullRet, checked, probed,
          procOutcome, runErr, outputRet>>

\* the stamp file does not exist
NoFile == -1

Commands == {"create", "enter", "rmi", "run", "list", "init-container"}

\* a valid level (the default) and one logrus.ParseLevel rejects
LogLevels == {"warn", "bogus"}

NoRet == [pulled |-> FALSE, err |-> Nil, returned |-> FALSE]

Ret(pulled, err) == [pulled |-> pulled, err |-> err, returned |-> TRUE]

NoOutcome == [kind |-> "none", status |-> -1]

NoOutputRet == [output |-> "nil", err |-> Nil]

\* the variables of one invocation before it starts
FreshInvocation ==
    /\ exitStatus = 0
    /\ calls = << >>
    /\ migrated = "none"
    /\ okBefore = FALSE
    /\ dispatched = FALSE
    /\ exists = "unknown"
    /\ imageFound = FALSE
    /\ imagePulled = FALSE
    /\ asked = FALSE
    /\ response = << >>
    /\ retries = 0
    /\ pullResults = << >>
    /\ pullRet = NoRet
    /\ checked = "notcalled"
    /\ probed = FALSE

InvokerIdle ==
    /\ procOutcome = NoOutcome
    /\ runErr = Nil
    /\ outputRet = NoOutputRet

Init ==
    /\ stamp = NoFile
    /\ podmanVersion \in 1..MaxVersion
    /\ okVersion = 0
    /\ pc = "idle"
    /\ calledCmd = "create"
    /\ args = << >>
    /\ inContainer = FALSE
    /\ assumeyes = FALSE
    /\ unsafe = FALSE
    /\ loglevel = "warn"
    /\ out = << >>
    /\ FreshInvocation
    /\ InvokerIdle

\* ------------------------------------------------------------------------
\* Process exit
\* ------------------------------------------------------------------------

\* logrus.Fatal: the entry is written to stderr, then os.Exit(1)
Fatal(msg) ==
    /\ out' = Append(out, msg)
    /\ exitStatus' = 1
    /\ pc' = "exited"

\* os.Exit(0), or Execute returning after RunE returned nil
ExitOk(lines) ==
    /\ out' = out \o lines
    /\ exitStatus' = 0
    /\ pc' = "exited"

\* ------------------------------------------------------------------------
\* Root command: migrate
\* ------------------------------------------------------------------------

\* podman.CheckVersion(required): the installed version is not older than
\* the required one
CheckVersion(installed, required) == installed >= required

\* ioutil.ReadFile of the stamp file followed by string(output): a missing
\* file reads as the empty string
ReadStamp(st) == IF st = NoFile THEN 0 ELSE st

MigrationNeededIgnoresOrder(version, versionOld) ==
    IF versionOld # 0
    THEN IF version = versionOld THEN FALSE ELSE TRUE
    ELSE TRUE

MigrationNeededNoEqualityCheck(version, versionOld) ==
    IF versionOld # 0
    THEN IF ~CheckVersion(version, versionOld) THEN FALSE ELSE TRUE
    ELSE TRUE

\* the decision of migrate() between reading the stamp and running
\* `podman system migrate`
MigrationNeeded(version, versionOld) ==
    IF versionOld # 0
    THEN IF version = versionOld THEN FALSE
         ELSE IF ~CheckVersion(version, versionOld) THEN FALSE
         ELSE TRUE
    ELSE TRUE

\* which of the fallible steps of migrate() fails, if it is reached
MigrateFailures ==
    {"none", "configdir", "version", "mkdir", "read", "migrate",
     "write_open", "write_truncated"}

MigrateRet(err, st, cmds) == [err |-> err, stamp |-> st, cmds |-> cmds]

\* migrate(): the error returned ("" for nil), the stamp file it leaves and
\* the podman commands it ran
migrate(st, version, fail) ==
    IF fail = "configdir"
    THEN MigrateRet("Could not get the user config directory", st, << >>)
    ELSE IF fail = "version"
    THEN MigrateRet("Could not get the version of Podman", st, <<"version">>)
    ELSE IF fail = "mkdir"
    THEN MigrateRet("Configuration directory not created", st, <<"version">>)
    ELSE IF fail = "read"
    THEN MigrateRet("Could not read file", st, <<"version">>)
    ELSE IF ~MigrationNeeded(version, ReadStamp(st))
    THEN MigrateRet("", st, <<"version">>)
    ELSE IF fail = "migrate"
    THEN MigrateRet("Unable to migrate containers", st, <<"version", "system migrate">>)
    ELSE IF fail = "write_open"
    THEN MigrateRet("Could not update version of Podman", st, <<"version", "system migrate">>)
    ELSE IF fail = "write_truncated"
    THEN MigrateRet("Could not update version of Podman", 0, <<"version", "system migrate">>)
    ELSE MigrateRet("", version, <<"version", "system migrate">>)

\* ------------------------------------------------------------------------
\* Root command: PersistentPreRunE
\* ------------------------------------------------------------------------

MigrationCheckRequiredOnlyCreate(cmd, container) ==
    cmd = "create" /\ ~container

\* the condition under which PersistentPreRunE calls migrate()
MigrationCheckRequired(cmd, container) ==
    cmd # "init-container" /\ ~container

\* which of the fallible steps of PersistentPreRunE before migrate() fails
BootFailures == {"none", "executable", "toolboxpath"}

\* a toolbox process starts: cobra parses the command line, initConfig runs
Start(cmd, a, container, yes, uns, level, configFile) ==
    /\ pc = "idle"
    /\ calledCmd' = cmd
    /\ args' = a
    /\ inContainer' = container
    /\ assumeyes' = yes
    /\ unsafe' = uns
    /\ loglevel' = level
    /\ out' = IF configFile THEN <<"Using config file:">> ELSE << >>
    /\ pc' = "prerun"
    /\ UNCHANGED <<diskVars, exitStatus, calls, bootVars, dispatched, createVars,
                   invokerVars>>

\* the process is gone: nothing of it remains but the stamp file
Finish ==
    /\ pc = "exited"
    /\ pc' = "idle"
    /\ calledCmd' = "create"
    /\ args' = << >>
    /\ inContainer' = FALSE
    /\ assumeyes' = FALSE
    /\ unsafe' = FALSE
    /\ loglevel' = "warn"
    /\ out' = << >>
    /\ exitStatus' = 0
    /\ calls' = << >>
    /\ migrated' = "none"
    /\ okBefore' = FALSE
    /\ dispatched' = FALSE
    /\ exists' = "unknown"
    /\ imageFound' = FALSE
    /\ imagePulled' = FALSE
    /\ asked' = FALSE
    /\ response' = << >>
    /\ retries' = 0
    /\ pullResults' = << >>
    /\ pullRet' = NoRet
    /\ checked' = "notcalled"
    /\ probed' = FALSE
    /\ UNCHANGED <<diskVars, invokerVars>>

\* PersistentPreRunE returned nil: cobra goes on to the subcommand's RunE
PreRunOk ==
    /\ pc' = "run"
    /\ UNCHANGED <<out, exitStatus>>

PreRun(bootFail, migrateFail) ==
    /\ pc = "prerun"
    /\ UNCHANGED <<podmanVersion, invocationVars, dispatched, createVars, invokerVars>>
    /\ IF loglevel # "warn"
       THEN \* setUpLoggers fails, Execute prints the error and exits
            /\ out' = Append(out, "Error: not a valid logrus Level")
            /\ exitStatus' = 1
            /\ pc' = "exited"
            /\ UNCHANGED <<stamp, okVersion, calls, bootVars>>
       ELSE IF bootFail = "executable"
       THEN /\ Fatal("level=fatal msg=\"Failed to get absolute path to toolbox\"")
            /\ UNCHANGED <<stamp, okVersion, calls, bootVars>>
       ELSE IF inContainer /\ bootFail = "toolboxpath"
       THEN /\ Fatal("level=fatal msg=\"TOOLBOX_PATH is not set\"")
            /\ UNCHANGED <<stamp, okVersion, calls, bootVars>>
       ELSE IF inContainer /\ calledCmd # "init-container"
       THEN /\ Fatal("level=fatal msg=\"Toolbox currently does not work inside of a container. Please, run it on the host.\"")
            /\ UNCHANGED <<stamp, okVersion, calls, bootVars>>
       ELSE IF MigrationCheckRequired(calledCmd, inContainer)
       THEN LET r == migrate(stamp, podmanVersion, migrateFail)
            IN /\ stamp' = r.stamp
               /\ calls' = calls \o r.cmds
               /\ okBefore' = (okVersion = podmanVersion)
               /\ IF r.err = ""
                  THEN /\ migrated' = "nil"
                       /\ okVersion' = podmanVersion
                       /\ PreRunOk
                  ELSE /\ migrated' = "err"
                       /\ okVersion' = okVersion
                       /\ Fatal(r.err)
       ELSE /\ PreRunOk
            /\ UNCHANGED <<stamp, okVersion, calls, bootVars>>

\* between two invocations podman is upgraded or downgraded
ChangePodman(version) ==
    /\ pc = "idle"
    /\ version # podmanVersion
    /\ podmanVersion' = version
    /\ okVersion' = 0
    /\ UNCHANGED <<stamp, pc, invocationVars, out, exitStatus, calls, bootVars,
                   dispatched, createVars, invokerVars>>

\* the handlers of the subcommands other than create
OtherHandler(status) ==
    /\ pc = "run"
    /\ calledCmd # "create"
    /\ dispatched' = TRUE
    /\ exitStatus' = status
    /\ pc' = "exited"
    /\ UNCHANGED <<diskVars, invocationVars, out, calls, bootVars, createVars, invokerVars>>

\* ------------------------------------------------------------------------
\* create
\* ------------------------------------------------------------------------

\* the outcomes of the podman subprocesses create runs: the exit statuses
\* that handleErrorCode tells apart, and the failures without an exit status
CreateProcOutcomes ==
    {o \in ProcOutcomes : o.kind # "exited" \/ o.status \in {0, 1, 125}}

\* the loop bound of pullToolboxImage: `retries < 4`
MaxPullAttempts == 4

\* the value of retries that pullToolboxImage reports as a failure: `retries == 3`
ReportedRetries == 3

\* create: the container name given on the command line is rejected
NameRejected(a) == Len(a) # 0 /\ ~IsContainerNameValid(a[1])

\* create, up to the check of the container name
CreateValidate ==
    /\ pc = "run"
    /\ calledCmd = "create"
    /\ dispatched' = TRUE
    /\ IF NameRejected(args)
       THEN Fatal("level=fatal msg=\"Container names must match ^[a-zA-Z0-9][a-zA-Z0-9_.-]*$\"")
       ELSE /\ pc' = "container_exists"
            /\ UNCHANGED <<out, exitStatus>>
    /\ UNCHANGED <<diskVars, invocationVars, calls, bootVars, createVars, invokerVars>>

ExistingContainerIsIgnored(found) == FALSE

\* create: the container found by podman.ContainerExists ends create
ExistingContainerIsFatal(found) == found

\* create: podman.ContainerExists(containerName)
CreateContainerExists(o) ==
    /\ pc = "container_exists"
    /\ calls' = Append(calls, "container exists")
    /\ exists' = IF ContainerExists(o) THEN "true" ELSE "false"
    /\ IF ExistingContainerIsFatal(ContainerExists(o))
       THEN Fatal("level=fatal msg=\"Container already exists\"")
       ELSE /\ pc' = "find_image"
            /\ UNCHANGED <<out, exitStatus>>
    /\ UNCHANGED <<diskVars, invocationVars, bootVars, dispatched, imageFound,
                   imagePulled, asked, response, retries, pullResults, pullRet,
                   checked, probed, invokerVars>>

\* findLocalToolboxImage: whether the image was found and the commands run
findLocalToolboxImage(o1, o2, hasDomain) ==
    IF ImageExists(o1)
    THEN [found |-> TRUE, cmds |-> <<"image exists">>]
    ELSE IF ~hasDomain
    THEN [found |-> ImageExists(o2), cmds |-> <<"image exists", "image exists">>]
    ELSE [found |-> FALSE, cmds |-> <<"image exists">>]

\* create: imageFound := findLocalToolboxImage(imageName)
CreateFindImage(o1, o2, hasDomain) ==
    /\ pc = "find_image"
    /\ LET r == findLocalToolboxImage(o1, o2, hasDomain)
       IN /\ imageFound' = r.found
          /\ calls' = calls \o r.cmds
          /\ pc' = IF r.found THEN "check_image" ELSE "pull_prompt"
    /\ UNCHANGED <<diskVars, invocationVars, out, exitStatus, bootVars, dispatched,
                   exists, imagePulled, asked, response, retries, pullResults,
                   pullRet, checked, probed, invokerVars>>

Yes == {<<"y">>, <<"y", "e", "s">>}

PullImageDecisionAlways(yes, resp) == TRUE

\* pullToolboxImage: the value of pullImage, from the flag and the lowered response
PullImageDecision(yes, resp) ==
    IF ~yes THEN resp \in Yes ELSE TRUE

\* what create does with the result of pullToolboxImage
CreateAfterPull(ret) ==
    /\ pullRet' = ret
    /\ IF ~ret.pulled
       THEN IF ret.err # Nil
            THEN Fatal("level=fatal msg=\"Failed to pull image\"")
            ELSE ExitOk(<< >>)
       ELSE /\ pc' = "check_image"
            /\ UNCHANGED <<out, exitStatus>>

\* pullToolboxImage up to the pull loop
PullPrompt(answer) ==
    /\ pc = "pull_prompt"
    /\ asked' = ~assumeyes
    /\ response' = IF ~assumeyes THEN answer ELSE << >>
    /\ LET prompt == IF ~assumeyes
                     THEN <<"Image required to create toolbox container.",
                            "Do you want to pull the image (+-200MB)? [y/N]: ">>
                     ELSE << >>
       IN IF PullImageDecision(assumeyes, ToLower(response'))
          THEN /\ pc' = "pull_loop"
               /\ out' = out \o prompt
               /\ UNCHANGED <<exitStatus, pullRet>>
          ELSE /\ pullRet' = Ret(FALSE, Nil)
               /\ ExitOk(prompt)
    /\ UNCHANGED <<diskVars, invocationVars, calls, bootVars, dispatched, exists,
                   imageFound, imagePulled, retries, pullResults, checked, probed,
                   invokerVars>>

\* podman.PullImage returns nil, podman.ErrServiceUnavailable or another error
PullErrors == {Nil, ErrorString("Service Unavailable"), ErrorString("pull failed")}

IsServiceUnavailable(err) == err = ErrorString("Service Unavailable")

\* pullToolboxImage: its local imagePulled is set to false and never assigned again
LocalImagePulled == FALSE

\* pullToolboxImage after the loop
AfterLoop(r) ==
    IF r = ReportedRetries /\ ~LocalImagePulled
    THEN Ret(FALSE, ErrorString("Received Service Unavailable 3 times"))
    ELSE Ret(TRUE, Nil)

RetryAlways(err) == err # Nil

\* the pull loop goes on to another attempt after this error
Retry(err) == err # Nil /\ IsServiceUnavailable(err)

\* one iteration of the pull loop and, when the loop ends with it, the rest
\* of pullToolboxImage and what create does with the result
PullAttempt(err) ==
    /\ pc = "pull_loop"
    /\ retries < MaxPullAttempts
    /\ calls' = Append(calls, "pull")
    /\ pullResults' = Append(pullResults, err)
    /\ IF err = Nil
       THEN /\ retries' = retries
            /\ CreateAfterPull(AfterLoop(retries))
       ELSE IF Retry(err)
       THEN /\ retries' = retries + 1
            /\ IF retries' < MaxPullAttempts
               THEN /\ UNCHANGED <<pc, out, exitStatus, pullRet>>
               ELSE CreateAfterPull(AfterLoop(retries'))
       ELSE /\ retries' = retries
            /\ CreateAfterPull(Ret(FALSE, err))
    /\ UNCHANGED <<diskVars, invocationVars, bootVars, dispatched, exists,
                   imageFound, imagePulled, asked, response, checked, probed,
                   invokerVars>>

\* what `podman inspect --type image` may say about the image
InspectResults == {"error", "nolabels", "otherlabels", "debarshiray", "containers"}

\* checkIfToolboxImage
checkIfToolboxImage(info) ==
    IF info = "error" THEN [ok |-> FALSE, err |-> ErrorString("Unable to inspect image")]
    ELSE IF info = "nolabels"
    THEN [ok |-> FALSE, err |-> ErrorString("Image does not have labels at all")]
    ELSE IF ~(info = "debarshiray" \/ info = "containers")
    THEN [ok |-> FALSE, err |-> ErrorString("Image does not have the right labels")]
    ELSE [ok |-> TRUE, err |-> Nil]

\* create: the condition under which checkIfToolboxImage is called
ImageCheckDue(found, pulled, uns) == (found \/ pulled) /\ ~uns

\* create: the check that the image is a Toolbox image. The imagePulled read
\* here is the one declared before the pull; the result of pullToolboxImage
\* went to a variable of the same name declared inside the if block.
CreateCheckImage(info) ==
    /\ pc = "check_image"
    /\ IF ImageCheckDue(imageFound, imagePulled, unsafe)
       THEN /\ calls' = Append(calls, "image inspect")
            /\ checked' = IF checkIfToolboxImage(info).ok THEN "true" ELSE "false"
            /\ IF ~checkIfToolboxImage(info).ok
               THEN Fatal("level=fatal msg=\"Image is not a Toolbox image\"")
               ELSE /\ pc' = "probe_host"
                    /\ UNCHANGED <<out, exitStatus>>
       ELSE /\ pc' = "probe_host"
            /\ UNCHANGED <<calls, checked, out, exitStatus>>
    /\ UNCHANGED <<diskVars, invocationVars, bootVars, dispatched, exists,
                   imageFound, imagePulled, asked, response, retries,
                   pullResults, pullRet, probed, invokerVars>>

\* the host facts create cannot do without
HostFailures ==
    {"none", "sudo", "user", "usr_mount_point", "usr_mount_options", "home", "flatpak"}

HostFatal(failure) ==
    CASE failure = "sudo" -> "level=fatal msg=\"Group for sudo was not found\""
      [] failure = "user" -> "level=fatal msg=\"Failed to get user information\""
      [] failure = "usr_mount_point" -> "level=fatal msg=\"Failed to get the mount-point of /usr\""
      [] failure = "usr_mount_options" -> "level=fatal msg=\"Failed to get the mount options of /usr\""
      [] failure = "home" -> "level=fatal msg=\"Failed to canonicalize HOME\""
      [] failure = "flatpak" -> "level=fatal msg=\"Failed to call org.freedesktop.Flatpak.SessionHelper.RequestSession\""

\* create: gathering the host facts and assembling the arguments of podman create
CreateProbeHost(failure) ==
    /\ pc = "probe_host"
    /\ IF failure # "none"
       THEN /\ Fatal(HostFatal(failure))
            /\ UNCHANGED probed
       ELSE /\ probed' = TRUE
            /\ pc' = "podman_create"
            /\ UNCHANGED <<out, exitStatus>>
    /\ UNCHANGED <<diskVars, invocationVars, calls, bootVars, dispatched, exists,
                   imageFound, imagePulled, asked, response, retries,
                   pullResults, pullRet, checked, invokerVars>>

\* create: podman.CmdOutput(createArgs...) and the rest of create
CreatePodmanCreate(o) ==
    /\ pc = "podman_create"
    /\ calls' = Append(calls, "create")
    /\ IF PodmanOutput(o).err # Nil
       THEN Fatal("level=fatal msg=\"Failed to create container\"")
       ELSE ExitOk(<<"Created container:", "Enter with: toolbox enter">>)
    /\ UNCHANGED <<diskVars, invocationVars, bootVars, dispatched, createVars,
                   invokerVars>>

\* ------------------------------------------------------------------------
\* Specification of the toolbox invocations
\* ------------------------------------------------------------------------

Next ==
    \/ \E cmd \in Commands, container \in BOOLEAN, yes \in BOOLEAN,
          level \in LogLevels, configFile \in BOOLEAN :
          \E a \in (IF cmd = "create" THEN CreateArgs ELSE {<< >>}),
             uns \in (IF cmd = "create" THEN BOOLEAN ELSE {FALSE}) :
             Start(cmd, a, container, yes, uns, level, configFile)
    \/ Finish
    \/ \E bootFail \in BootFailures, migrateFail \in MigrateFailures :
          PreRun(bootFail, migrateFail)
    \/ \E version \in 1..MaxVersion : ChangePodman(version)
    \/ \E status \in {0, 1} : OtherHandler(status)
    \/ CreateValidate
    \/ \E o \in CreateProcOutcomes : CreateContainerExists(o)
    \/ \E o1 \in CreateProcOutcomes, o2 \in CreateProcOutcomes, hasDomain \in BOOLEAN :
          CreateFindImage(o1, o2, hasDomain)
    \/ \E answer \in Responses : PullPrompt(answer)
    \/ \E err \in PullErrors : PullAttempt(err)
    \/ \E info \in InspectResults : CreateCheckImage(info)
    \/ \E failure \in HostFailures : CreateProbeHost(failure)
    \/ \E o \in CreateProcOutcomes : CreatePodmanCreate(o)

Spec == Init /\ [][Next]_vars

\* ------------------------------------------------------------------------
\* Specification of the podman invoker on its own
\* ------------------------------------------------------------------------

\* PodmanRun or PodmanOutput was not called yet
NotCalled == [type |-> "notcalled", status |-> 0, msg |-> ""]

InvokerInit ==
    /\ stamp = NoFile
    /\ podmanVersion = 1
    /\ okVersion = 0
    /\ pc = "idle"
    /\ calledCmd = "create"
    /\ args = << >>
    /\ inContainer = FALSE
    /\ assumeyes = FALSE
    /\ unsafe = FALSE
    /\ loglevel = "warn"
    /\ out = << >>
    /\ FreshInvocation
    /\ procOutcome \in ProcOutcomes
    /\ runErr = NotCalled
    /\ outputRet = [output |-> "nil", err |-> NotCalled]

InvokeRun ==
    /\ runErr = NotCalled
    /\ runErr' = PodmanRun(procOutcome)
    /\ UNCHANGED <<diskVars, pc, invocationVars, out, exitStatus, calls, bootVars,
                   dispatched, createVars, procOutcome, outputRet>>

InvokeOutput ==
    /\ outputRet.err = NotCalled
    /\ outputRet' = PodmanOutput(procOutcome)
    /\ UNCHANGED <<diskVars, pc, invocationVars, out, exitStatus, calls, bootVars,
                   dispatched, createVars, procOutcome, runErr>>

InvokerNext == InvokeRun \/ InvokeOutput

InvokerSpec == InvokerInit /\ [][InvokerNext]_vars

\* ------------------------------------------------------------------------
\* Properties
\* ------------------------------------------------------------------------

Issued(cmd) == \E i \in DOMAIN calls : calls[i] = cmd

PullSucceeded == \E i \in DOMAIN pullResults : pullResults[i] = Nil

\* C1: once migrate() has returned nil with podman at version V, an
\* invocation of the bootstrap with podman still at V does not run
\* `podman system migrate` and leaves the stamp file as it is.
C1_MigrateIsIdempotent ==
    [][(pc = "prerun" /\ okVersion = podmanVersion)
          => /\ stamp' = stamp
             /\ \A i \in DOMAIN calls' : calls'[i] # "system migrate"]_vars

\* migrate() was called again at the version it had succeeded at, and returned
C1_Witness ==
    /\ okBefore
    /\ migrated = "nil"
    /\ stamp = podmanVersion
    /\ Issued("version")

\* C2 as stated: whenever a subcommand's handler was dispatched, migrate()
\* had been called by the bootstrap and had returned.
C2_MigrationBeforeEveryHandler ==
    dispatched => migrated = "nil"

\* C2 amended: whenever the handler of a subcommand other than init-container
\* was dispatched, migrate() had been called by the bootstrap and had returned
\* without error; the handler of init-container is dispatched without a call
\* of migrate().
C2_MigrationBeforeHostHandlers ==
    /\ (dispatched /\ calledCmd # "init-container") => migrated = "nil"
    /\ (dispatched /\ calledCmd = "init-container") => migrated = "none"

\* a handler other than init-container's and create's ran after a migration
C2_Witness ==
    /\ dispatched
    /\ calledCmd = "enter"
    /\ migrated = "nil"
    /\ Issued("system migrate")

\* the error the claim expects of the invoker for an outcome of podman
C3_Expected(o) ==
    IF o.kind = "exited" /\ o.status = 0 THEN Nil
    ELSE IF o.kind = "exited" /\ o.status = 1 THEN ErrorString("No such container/image")
    ELSE IF o.kind = "exited" /\ o.status = 2 THEN ErrorString("Container is running")
    ELSE IF o.kind = "exited" /\ o.status = 125 THEN ErrorString("Failed to inspect container")
    ELSE CmdErr(o)

\* C3: PodmanRun and PodmanOutput return the static error of exit statuses
\* 1, 2 and 125, the error of the subprocess itself in every other failure,
\* and nil exactly when podman exited with status 0.
C3_ExitCodesMapped ==
    /\ runErr # NotCalled =>
          /\ runErr = C3_Expected(procOutcome)
          /\ (runErr = Nil) <=> (procOutcome.kind = "exited" /\ procOutcome.status = 0)
    /\ outputRet.err # NotCalled =>
          /\ outputRet.err = C3_Expected(procOutcome)
          /\ (outputRet.err = Nil) <=> (procOutcome.kind = "exited" /\ procOutcome.status = 0)
          /\ (outputRet.output = "nil") <=> (outputRet.err # Nil)

\* podman exited with status 125 and both wrappers have returned
C3_Witness ==
    /\ procOutcome.kind = "exited"
    /\ procOutcome.status = 125
    /\ runErr = ErrorString("Failed to inspect container")
    /\ outputRet.err = ErrorString("Failed to inspect container")

\* the podman commands of create that check, pull or create
CreateCommands == {"container exists", "image exists", "pull", "image inspect", "create"}

\* C4: when create is given a NAME that does not match the pattern, the process
\* exits with status 1, its first output line is
\* "toolbox: invalid argument for '--container'", and create has issued no
\* podman command.
C4_InvalidNameReported ==
    (calledCmd = "create" /\ dispatched /\ Len(args) > 0 /\ ~IsContainerNameValid(args[1]))
        => /\ pc = "exited"
           /\ exitStatus = 1
           /\ Len(out) > 0
           /\ out[1] = "toolbox: invalid argument for '--container'"
           /\ \A i \in DOMAIN calls : calls[i] \notin CreateCommands

\* the fatal errors of create that come from the host or the image, not from the pull
HostFatalLines ==
    {HostFatal(f) : f \in HostFailures \ {"none"}}
        \cup {"level=fatal msg=\"Image is not a Toolbox image\""}

\* C5: with --assumeyes create reads no answer, and once a pull has succeeded
\* a create that did not stop at a fatal host or image error has invoked
\* `podman create`.
C5_AssumeYesPullsAndCreates ==
    (calledCmd = "create" /\ assumeyes)
        => /\ ~asked
           /\ (pc = "exited" /\ PullSucceeded /\ out[Len(out)] \notin HostFatalLines)
                 => Issued("create")

\* C6: when pullToolboxImage has returned after a call of podman.PullImage
\* that returned no error, it has returned (true, nil).
C6_SuccessfulPullReported ==
    (pullRet.returned /\ PullSucceeded) => pullRet = Ret(TRUE, Nil)

\* C7: pullToolboxImage returns true only after a call of podman.PullImage
\* that returned no error; after four Service Unavailable errors it has
\* returned (false, "Received Service Unavailable 3 times") and create does
\* not invoke `podman create`.
C7_PulledOnlyAfterSuccess ==
    /\ (pullRet.returned /\ pullRet.pulled) => PullSucceeded
    /\ (Len(pullResults) = 4 /\ \A i \in 1..4 : IsServiceUnavailable(pullResults[i]))
          => /\ pullRet = Ret(FALSE, ErrorString("Received Service Unavailable 3 times"))
             /\ ~Issued("create")

\* C8: podman.PullImage is called at most 4 times, every call but the last
\* returned Service Unavailable, the loop goes on only while fewer than 4
\* calls were made, and an error other than Service Unavailable ends
\* pullToolboxImage with (false, that error).
C8_PullLoopBounded ==
    /\ Len(pullResults) <= 4
    /\ \A i \in DOMAIN pullResults :
          i < Len(pullResults) => IsServiceUnavailable(pullResults[i])
    /\ pc = "pull_loop" => (Len(pullResults) < 4 /\ ~pullRet.returned)
    /\ \A i \in DOMAIN pullResults :
          (pullResults[i] # Nil /\ ~IsServiceUnavailable(pullResults[i]))
              => (i = Len(pullResults) /\ pullRet = Ret(FALSE, pullResults[i]))

\* a retry was followed by an error that is not Service Unavailable
C8_Witness ==
    /\ Len(pullResults) = 3
    /\ pullResults[3] = ErrorString("pull failed")
    /\ pullRet = Ret(FALSE, ErrorString("pull failed"))
    /\ pc = "exited"

\* "y" and "yes" in every mix of upper and lower case
C9_YesInAnyCase ==
    {<<a>> : a \in {"y", "Y"}}
        \cup {<<a, b, c>> : a \in {"y", "Y"}, b \in {"e", "E"}, c \in {"s", "S"}}

\* C9: when the answer read at the pull prompt is not "y" or "yes" in any
\* case, podman.PullImage is not called, pullToolboxImage returns (false, nil)
\* and create exits with status 0 without invoking `podman create`.
C9_RefusalEndsCreate ==
    (asked /\ response \notin C9_YesInAnyCase)
        => /\ pullResults = << >>
           /\ ~Issued("pull")
           /\ pullRet = Ret(FALSE, Nil)
           /\ pc = "exited"
           /\ exitStatus = 0
           /\ ~Issued("create")

\* the user answered something that is not yes and create has ended
C9_Witness ==
    /\ asked
    /\ response = <<"y", "e">>
    /\ pc = "exited"
    /\ Issued("image exists")

\* C10: without --unsafe, `podman create` is invoked only after
\* checkIfToolboxImage was called and returned true.
C10_CreateOnlyCheckedImages ==
    (Issued("create") /\ ~unsafe) => checked = "true"

\* the number of times a podman command was issued by the invocation
TimesIssued(cmd) == Cardinality({i \in DOMAIN calls : calls[i] = cmd})

\* C11: when podman.ContainerExists returned true, create has ended with a
\* fatal error without any image lookup, pull, inspection or `podman create`;
\* `podman create` is invoked at most once per invocation, and only after
\* podman.ContainerExists returned false.
C11_ExistingContainerEndsCreate ==
    /\ exists = "true" =>
          /\ pc = "exited"
          /\ exitStatus = 1
          /\ out[Len(out)] = "level=fatal msg=\"Container already exists\""
          /\ \A i \in DOMAIN calls :
                calls[i] \notin {"image exists", "pull", "image inspect", "create"}
    /\ TimesIssued("create") <= 1
    /\ Issued("create") =>
          /\ exists = "false"
          /\ \E i, j \in DOMAIN calls :
                i < j /\ calls[i] = "container exists" /\ calls[j] = "create"

\* create found the container and ended
C11_Witness ==
    /\ exists = "true"
    /\ pc = "exited"
    /\ calls[Len(calls)] = "container exists"
    /\ dispatched

\* the condition the claim gives for running `podman system migrate`, for
\* the stamp file and the installed version migrate() finds
C12_Condition(st, version) ==
    \/ st = NoFile
    \/ st = 0
    \/ (st # version /\ ~(version < st))

\* the errors migrate() returns before it compares the versions
EarlyMigrateErrors ==
    {"Could not get the user config directory", "Could not get the version of Podman",
     "Configuration directory not created", "Could not read file"}

\* C12 as stated: every call of migrate() runs `podman system migrate`
\* exactly when the stamp is missing or empty, or differs from the installed
\* version while the installed version is not older; otherwise it returns nil
\* and leaves the stamp file alone.
C12_MigratesExactlyWhenNewer ==
    [][(pc = "prerun" /\ migrated' # "none")
          => /\ Issued("system migrate")' <=> C12_Condition(stamp, podmanVersion)
             /\ ~C12_Condition(stamp, podmanVersion)
                   => (migrated' = "nil" /\ stamp' = stamp)]_vars

\* C12 amended: the same, for the calls of migrate() that got the installed
\* version and read the stamp file without an error.
C12_MigratesExactlyWhenNewerOnceRead ==
    [][(/\ pc = "prerun"
        /\ migrated' # "none"
        /\ ~(migrated' = "err" /\ out'[Len(out')] \in EarlyMigrateErrors))
          => /\ Issued("system migrate")' <=> C12_Condition(stamp, podmanVersion)
             /\ ~C12_Condition(stamp, podmanVersion)
                   => (migrated' = "nil" /\ stamp' = stamp)]_vars

\* migrate() returned nil without a migration for a podman older than the stamp
C12_Witness ==
    /\ migrated = "nil"
    /\ ~Issued("system migrate")
    /\ stamp > podmanVersion
    /\ pc = "run"

\* the version a stamp file records, 0 when it is missing or empty
Recorded(st) == ReadStamp(st)

C13_Max(a, b) == IF a >= b THEN a ELSE b

\* C13: the version recorded in the stamp file never decreases, and when
\* migrate() has returned nil the stamp records the maximum of the version it
\* recorded before and the installed version.
C13_StampIsMonotonic ==
    [][/\ Recorded(stamp') >= Recorded(stamp)
       /\ (pc = "prerun" /\ migrated' = "nil")
             => Recorded(stamp') = C13_Max(Recorded(stamp), podmanVersion)]_vars

====
